---- MODULE Spec2Model ----
(***************************************************************************)
(* OBS Discord notification script: the Twitch API client                  *)
(* (pytwitch/twitch.py), the Discord webhook client                        *)
(* (discordwebhooks/webhook.py) and the OBS script that ties them to the   *)
(* host's frontend events (discord-notification.py).                       *)
(*                                                                         *)
(* Python values are modelled as follows.  An optional string is a string, *)
(* with NoneStr standing for None.  The attributes of an embed, which hold *)
(* values of several Python types, are tagged records (PyNone, PyStr, ...).*)
(* An HTTP exchange is a function of the response the remote end chooses:  *)
(* every operation that performs a request takes the response as input and *)
(* returns the requests it issued, so the actions draw the responses with  *)
(* \E.  An operation returns a record with its result (ret), the exception *)
(* that left it (exc, NoExc when it returned) and the object after it.     *)
(***************************************************************************)
EXTENDS Integers, Sequences, FiniteSets, TLC

VARIABLES
    \* DiscordNotificationScript
    username, boxart_height, twitch_auth_path, hooks_list,
    discord_start_msg, discord_stop_msg,
    do_discord_start_notice, do_discord_stop_notice,
    twitch, is_streaming, loaded,
    \* what the last operation did, as its caller and the network see it
    event, raised, ret, reqs, posts, log, auth_calls,
    \* the DiscordEmbed a caller of the webhook client holds
    embed,
    \* the DiscordWebhook objects a caller holds, and the lists they refer to
    webhooks

cfgvars == <<username, boxart_height, twitch_auth_path, hooks_list,
             discord_start_msg, discord_stop_msg,
             do_discord_start_notice, do_discord_stop_notice>>

obsvars == <<event, raised, ret, reqs, posts, log, auth_calls>>

vars == <<cfgvars, twitch, is_streaming, loaded, obsvars, embed, webhooks>>

----------------------------------------------------------------------------
(* Python values *)

NoneStr == "<None>"

NoExc == "none"

\* Python truthiness of an optional string: None and '' are falsy.
Truthy(s) == s # NoneStr /\ s # ""

\* An optional string inside an f-string: None is printed as 'None'.
Fmt(s) == IF s = NoneStr THEN "None" ELSE s

\* The value of F at x, with x evaluated once (a Python local variable).
Bind(x, F(_)) == CHOOSE y \in {F(v) : v \in {x}} : TRUE

\* An optional result: a list, a dict, or None.
Some(v) == [v |-> v, some |-> TRUE]
Nothing == [some |-> FALSE]

----------------------------------------------------------------------------
(* pytwitch/twitch.py *)

UserRequests == 100
VideoRequests == 100
GamesRequests == 100

AuthToken == "https://id.twitch.tv/oauth2/token"
RevokeToken == "https://id.twitch.tv/oauth2/revoke"
ValidateToken == "https://id.twitch.tv/oauth2/validate"
Users == "https://api.twitch.tv/helix/users"
Channels == "https://api.twitch.tv/helix/channels"
Videos == "https://api.twitch.tv/helix/videos"
Games == "https://api.twitch.tv/helix/games"

\* The string __validate_response compares the WWW-Authenticate header with.
ExpectedChallenge == "OAuth realm='TwitchTV', error='invalid_token"

\* The challenge the platform sends for an invalid or expired token.
TwitchChallenge == "OAuth realm=\"TwitchTV\", error=\"invalid_token\""

\* A response of the remote end, or the transport failing (requests raises
\* ConnectionError).  data is the 'data' list of the JSON body (absent and
\* empty are treated alike by every reader); www is the WWW-Authenticate
\* header.
Response(status, www, data, at, rt, cid) ==
    [www |-> www, data |-> data, kind |-> "response", status_code |-> status,
     access_token |-> at, refresh_token |-> rt, client_id |-> cid]

TransportError == [www |-> NoneStr, data |-> <<>>, kind |-> "error", status_code |-> 0,
                   access_token |-> NoneStr, refresh_token |-> NoneStr, client_id |-> NoneStr]

NoResponse == [www |-> NoneStr, data |-> <<>>, kind |-> "None", status_code |-> 0,
               access_token |-> NoneStr, refresh_token |-> NoneStr, client_id |-> NoneStr]

Request(method, url, authorization, client, params) ==
    [client_id |-> client, method |-> method, url |-> url,
     authorization |-> authorization, params |-> params]

\* A Twitch object; obj is FALSE where the Python variable holds None.
NoTwitch == [access_token |-> NoneStr, refresh_token |-> NoneStr, client_id |-> NoneStr,
             obj |-> FALSE, client_secret |-> NoneStr,
             is_authenticated |-> FALSE]

authenticated(s) == s.is_authenticated

\* requests.Response defines no __eq__, so `response == 200` compares a
\* Response object with an int by identity.
ResponseEqualsInt(r, n) == FALSE

\* Twitch.__oauth: r is the token endpoint's answer.
oauth(s, r) ==
    LET grant == IF s.refresh_token # NoneStr THEN "refresh_token" ELSE "client_credentials"
        params == <<<<"client_id", s.client_id>>, <<"client_secret", s.client_secret>>>>
                  \o (IF s.refresh_token # NoneStr
                      THEN <<<<"refresh_token", s.refresh_token>>>> ELSE <<>>)
                  \o <<<<"grant_type", grant>>>>
        rq == <<Request("POST", AuthToken, NoneStr, NoneStr, params)>>
    IN  IF r.kind = "error"
        THEN [reqs |-> rq, s |-> s, exc |-> "ConnectionError"]
        ELSE IF r.status_code # 200
        THEN [reqs |-> rq, s |-> s, exc |-> "ValueError"]
        ELSE IF s.refresh_token # NoneStr
        THEN [reqs |-> rq, s |-> s, exc |-> NoExc]
        ELSE [reqs |-> rq,
              s |-> [s EXCEPT !.access_token = r.access_token,
                              !.refresh_token = r.refresh_token], exc |-> NoExc]

\* Twitch.validate_token (static): r is the validation endpoint's answer.
validate_token(access_token, r) ==
    LET rq == <<Request("GET", ValidateToken, "OAuth " \o Fmt(access_token), NoneStr, <<>>)>>
    IN  IF ~Truthy(access_token)
        THEN [ret |-> NoneStr, reqs |-> <<>>, exc |-> "ValueError"]
        ELSE IF r.kind = "error"
        THEN [ret |-> NoneStr, reqs |-> rq, exc |-> "ConnectionError"]
        ELSE IF ResponseEqualsInt(r, 200)
        THEN [ret |-> r.client_id, reqs |-> rq, exc |-> NoExc]
        ELSE [ret |-> NoneStr, reqs |-> rq, exc |-> NoExc]

\* Twitch.__init__ taking the client-credentials flow when either of
\* client_id and client_secret is given.
TwitchNew_either_credential(auth, r) ==
    LET s0 == [NoTwitch EXCEPT !.obj = TRUE]
    IN  IF auth.access_token # NoneStr
        THEN LET s1 == [s0 EXCEPT !.access_token = auth.access_token]
             IN  Bind(validate_token(s1.access_token, r), LAMBDA v :
                 IF v.exc # NoExc
                 THEN [reqs |-> v.reqs, s |-> NoTwitch, exc |-> v.exc]
                 ELSE [reqs |-> v.reqs,
                       s |-> [s1 EXCEPT !.client_id = v.ret,
                                        !.is_authenticated = (v.ret # NoneStr)], exc |-> NoExc])
        ELSE IF auth.client_id # NoneStr \/ auth.client_secret # NoneStr
        THEN LET s1 == [s0 EXCEPT !.client_id = auth.client_id,
                                  !.client_secret = auth.client_secret]
             IN  Bind(oauth(s1, r), LAMBDA o :
                 IF o.exc = "ValueError"
                 THEN [reqs |-> o.reqs,
                       s |-> [o.s EXCEPT !.is_authenticated = FALSE], exc |-> NoExc]
                 ELSE IF o.exc # NoExc
                 THEN [reqs |-> o.reqs, s |-> NoTwitch, exc |-> o.exc]
                 ELSE [reqs |-> o.reqs,
                       s |-> [o.s EXCEPT !.is_authenticated = TRUE], exc |-> NoExc])
        ELSE [reqs |-> <<>>, s |-> NoTwitch, exc |-> "ValueError"]

\* Twitch.__init__: auth is the credentials dict (a missing key is NoneStr),
\* r the answer of the one endpoint the constructor calls.  When exc is set
\* no object results.
TwitchNew(auth, r) ==
    LET s0 == [NoTwitch EXCEPT !.obj = TRUE]
    IN  IF auth.access_token # NoneStr
        THEN LET s1 == [s0 EXCEPT !.access_token = auth.access_token]
             IN  Bind(validate_token(s1.access_token, r), LAMBDA v :
                 IF v.exc # NoExc
                 THEN [reqs |-> v.reqs, s |-> NoTwitch, exc |-> v.exc]
                 ELSE [reqs |-> v.reqs,
                       s |-> [s1 EXCEPT !.client_id = v.ret,
                                        !.is_authenticated = (v.ret # NoneStr)], exc |-> NoExc])
        ELSE IF auth.client_id # NoneStr /\ auth.client_secret # NoneStr
        THEN LET s1 == [s0 EXCEPT !.client_id = auth.client_id,
                                  !.client_secret = auth.client_secret]
             IN  Bind(oauth(s1, r), LAMBDA o :
                 IF o.exc = "ValueError"
                 THEN [reqs |-> o.reqs,
                       s |-> [o.s EXCEPT !.is_authenticated = FALSE], exc |-> NoExc]
                 ELSE IF o.exc # NoExc
                 THEN [reqs |-> o.reqs, s |-> NoTwitch, exc |-> o.exc]
                 ELSE [reqs |-> o.reqs,
                       s |-> [o.s EXCEPT !.is_authenticated = TRUE], exc |-> NoExc])
        ELSE [reqs |-> <<>>, s |-> NoTwitch, exc |-> "ValueError"]

\* Twitch.__validate_response: r is the response under validation, ro the
\* token endpoint's answer should __oauth be called.
validate_response(s, r, ro) ==
    IF r.status_code = 401
    THEN IF r.www = NoneStr
         THEN [ret |-> FALSE, reqs |-> <<>>, s |-> s, exc |-> "KeyError"]
         ELSE IF r.www = ExpectedChallenge
         THEN Bind(oauth(s, ro), LAMBDA o :
                  IF o.exc = "ValueError"
                  THEN [ret |-> FALSE, reqs |-> o.reqs, s |-> o.s, exc |-> NoExc]
                  ELSE IF o.exc # NoExc
                  THEN [ret |-> FALSE, reqs |-> o.reqs, s |-> o.s, exc |-> o.exc]
                  ELSE [ret |-> TRUE, reqs |-> o.reqs, s |-> o.s, exc |-> NoExc])
         ELSE [ret |-> TRUE, reqs |-> <<>>, s |-> s, exc |-> NoExc]
    ELSE IF r.status_code # 200
    THEN [ret |-> FALSE, reqs |-> <<>>, s |-> s, exc |-> NoExc]
    ELSE [ret |-> TRUE, reqs |-> <<>>, s |-> s, exc |-> NoExc]

\* Twitch.__attempt_request_get: ret is the response, or NoResponse for None.
attempt_request_get(s, url, params, r, ro) ==
    LET rq == <<Request("GET", url, "Bearer " \o Fmt(s.access_token), s.client_id, params)>>
    IN  IF r.kind = "error"
        THEN [ret |-> NoResponse, reqs |-> rq, s |-> s, exc |-> "ConnectionError"]
        ELSE Bind(validate_response(s, r, ro), LAMBDA v :
                 [ret |-> IF v.exc = NoExc /\ v.ret THEN r ELSE NoResponse,
                  reqs |-> rq \o v.reqs,
                  s |-> v.s,
                  exc |-> v.exc])

\* str.isdecimal on the ids and names the model uses.
DecimalStrings == {"141981764", "509658", "1", "2"}
isdecimal(id) == id \in DecimalStrings

\* The query of get_users_info / get_games_info: each id classified.
Payload(ids, name_key) ==
    [i \in 1..Len(ids) |-> IF isdecimal(ids[i]) THEN <<"id", ids[i]>> ELSE <<name_key, ids[i]>>]

\* Twitch.get_users_info refusing a list as long as the limit.
get_users_info_below_limit(s, ids, r, ro) ==
    IF Len(ids) >= UserRequests
    THEN [ret |-> Nothing, reqs |-> <<>>, s |-> s, exc |-> "ValueError",
          response |-> NoResponse]
    ELSE Bind(attempt_request_get(s, Users, Payload(ids, "login"), r, ro), LAMBDA a :
             [ret |-> IF a.exc = NoExc /\ a.ret.kind # "None" THEN Some(a.ret.data)
                      ELSE Nothing,
              reqs |-> a.reqs, s |-> a.s, exc |-> a.exc, response |-> a.ret])

\* Twitch.get_users_info
get_users_info(s, ids, r, ro) ==
    IF Len(ids) > UserRequests
    THEN [ret |-> Nothing, reqs |-> <<>>, s |-> s, exc |-> "ValueError",
          response |-> NoResponse]
    ELSE Bind(attempt_request_get(s, Users, Payload(ids, "login"), r, ro), LAMBDA a :
             [ret |-> IF a.exc = NoExc /\ a.ret.kind # "None" THEN Some(a.ret.data)
                      ELSE Nothing,
              reqs |-> a.reqs, s |-> a.s, exc |-> a.exc, response |-> a.ret])

\* Twitch.get_user_info
get_user_info(s, user, r, ro) ==
    Bind(get_users_info(s, <<user>>, r, ro), LAMBDA u :
        [u EXCEPT !.ret = IF u.exc = NoExc /\ u.ret.some /\ Len(u.ret.v) = 1
                          THEN Some(u.ret.v[1]) ELSE Nothing])

\* Twitch.get_channel_info
get_channel_info(s, user_id, r, ro) ==
    Bind(attempt_request_get(s, Channels, <<<<"broadcaster_id", user_id>>>>, r, ro), LAMBDA a :
        [ret |-> IF a.exc = NoExc /\ a.ret.kind # "None" /\ Len(a.ret.data) # 0
                 THEN Some(a.ret.data[1]) ELSE Nothing, reqs |-> a.reqs,
         s |-> a.s,
         exc |-> a.exc, response |-> a.ret])

\* Twitch.get_videos_info: video_ids is an optional list (Some / Nothing),
\* user_id and game_id optional strings.  The argument check builds a Python
\* set of the three arguments, and a list is not hashable.
get_videos_info(s, video_ids, user_id, game_id, r, ro) ==
    IF video_ids.some
    THEN [ret |-> Nothing, reqs |-> <<>>, s |-> s, exc |-> "TypeError",
          response |-> NoResponse, cursor |-> NoneStr]
    ELSE IF user_id = NoneStr /\ game_id = NoneStr
    THEN [ret |-> Nothing, reqs |-> <<>>, s |-> s, exc |-> "ValueError",
          response |-> NoResponse, cursor |-> NoneStr]
    ELSE LET payload == (IF Truthy(user_id) THEN <<<<"user_id", user_id>>>> ELSE <<>>)
                        \o (IF Truthy(game_id) THEN <<<<"game_id", game_id>>>> ELSE <<>>)
         IN  Bind(attempt_request_get(s, Videos, payload, r, ro), LAMBDA a :
             [ret |-> IF a.exc = NoExc /\ a.ret.kind # "None" /\ Len(a.ret.data) # 0
                      THEN Some(a.ret.data) ELSE Nothing, reqs |-> a.reqs,
              s |-> a.s,
              exc |-> a.exc,
              response |-> a.ret, cursor |-> NoneStr])

\* Twitch.get_games_info
get_games_info(s, games, r, ro) ==
    IF Len(games) > GamesRequests
    THEN [ret |-> Nothing, reqs |-> <<>>, s |-> s, exc |-> "ValueError",
          response |-> NoResponse]
    ELSE Bind(attempt_request_get(s, Games, Payload(games, "name"), r, ro), LAMBDA a :
             [ret |-> IF a.exc = NoExc /\ a.ret.kind # "None" /\ Len(a.ret.data) # 0
                      THEN Some(a.ret.data) ELSE Nothing, reqs |-> a.reqs,
              s |-> a.s,
              exc |-> a.exc, response |-> a.ret])

\* Twitch.get_game_info
get_game_info(s, game, r, ro) ==
    Bind(get_games_info(s, <<game>>, r, ro), LAMBDA g :
        [g EXCEPT !.ret = IF g.exc = NoExc /\ g.ret.some /\ Len(g.ret.v) # 0
                          THEN Some(g.ret.v[1]) ELSE Nothing])

\* Twitch.revoke_access (static): r is the revoke endpoint's answer.
revoke_access(client_id, access_token, r) ==
    LET rq == <<Request("POST", RevokeToken, NoneStr, NoneStr,
                        <<<<"client_id", client_id>>, <<"token", access_token>>>>)>>
    IN  IF ~Truthy(client_id) \/ ~Truthy(access_token)
        THEN [reqs |-> <<>>, exc |-> "ValueError"]
        ELSE IF r.kind = "error"
        THEN [reqs |-> rq, exc |-> "ConnectionError"]
        ELSE [reqs |-> rq, exc |-> NoExc]

\* Twitch.revoke_my_access
revoke_my_access(s, r) ==
    Bind(revoke_access(s.client_id, s.access_token, r), LAMBDA v :
        IF v.exc # NoExc
        THEN [reqs |-> v.reqs, s |-> s, exc |-> v.exc]
        ELSE [reqs |-> v.reqs, s |-> [s EXCEPT !.is_authenticated = FALSE], exc |-> NoExc])

----------------------------------------------------------------------------
(* discordwebhooks/webhook.py *)

\* Tagged Python values, for attributes that hold values of several types;
\* each type keeps its value under a name of its own.
PyNone == [t |-> "None"]
PyStr(x) == [t |-> "str", str |-> x]
PyInt(n) == [t |-> "int", int |-> n]
PyDict(d) == [t |-> "dict", dict |-> d]
PyList(l) == [t |-> "list", list |-> l]

\* bool(x)
PyTruthy(x) ==
    CASE x.t = "None" -> FALSE
      [] x.t = "str" -> x.str # ""
      [] x.t = "int" -> x.int # 0
      [] x.t = "dict" -> DOMAIN x.dict # {}
      [] x.t = "list" -> Len(x.list) # 0

\* dict.get(key, default) on a dict held as a record
Get(d, key, default) == IF key \in DOMAIN d THEN d[key] ELSE default

TitleLength == 256
DescriptionLength == 2048
Fields == 25
FieldNameLength == 256
FieldValueLength == 1024
FooterTextLength == 2048
AuthorNameLength == 256
MaxLength == 6000

EmbedAttributes == {"title", "description", "url", "timestamp", "color", "footer",
                    "image", "thumbnail", "video", "provider", "author", "fields"}

\* DiscordEmbed.__init__: kwargs is the keyword dict; no attribute is checked.
DiscordEmbed(kwargs) ==
    [a \in EmbedAttributes |->
        IF a = "fields" THEN Get(kwargs, a, PyList(<<>>)) ELSE Get(kwargs, a, PyNone)]

\* len(s or '') for an optional str attribute
LenOrEmpty(x) == IF PyTruthy(x) THEN Len(x.str) ELSE 0

\* `for (x, y) in [name, value]` unpacks each of the two strings into two
\* characters: it raises ValueError unless the string has exactly two.
FieldUnpacks(f) == Len(Get(f, "name", "")) = 2 /\ Len(Get(f, "value", "")) = 2

\* sum of len(x) + len(y) over the fields, for fields that unpack
RECURSIVE SumLens(_)
SumLens(fs) ==
    IF Len(fs) = 0 THEN 0
    ELSE Len(Get(Head(fs), "name", "")) + Len(Get(Head(fs), "value", "")) + SumLens(Tail(fs))

\* DiscordEmbed.embed_length
embed_length(e) ==
    IF e.footer.t = "str" \/ e.author.t = "str"
    THEN [ret |-> 0, exc |-> "AttributeError"]
    ELSE IF e.fields.t = "list" /\ \E i \in 1..Len(e.fields.list) : ~FieldUnpacks(e.fields.list[i])
    THEN [ret |-> 0, exc |-> "ValueError"]
    ELSE [ret |-> LenOrEmpty(e.title) + LenOrEmpty(e.description)
                  + (IF e.footer.t = "dict" THEN Len(Get(e.footer.dict, "text", "")) ELSE 0)
                  + (IF e.author.t = "dict" THEN Len(Get(e.author.dict, "name", "")) ELSE 0)
                  + (IF e.fields.t = "list" THEN SumLens(e.fields.list) ELSE 0),
          exc |-> NoExc]

\* DiscordEmbed.is_empty
is_empty(e) == \A a \in EmbedAttributes : e[a].t = "None"

\* DiscordEmbed.is_embed_valid
is_embed_valid(e) ==
    Bind(embed_length(e), LAMBDA n :
        IF n.exc # NoExc
        THEN [ret |-> FALSE, exc |-> n.exc]
        ELSE [ret |-> (n.ret <= MaxLength) /\ ~is_empty(e), exc |-> NoExc])

\* DiscordEmbed.set_timestamp: an empty string asks for the current time,
\* clock being what datetime.now() formats to.
set_timestamp(e, timestamp, clock) ==
    IF timestamp = NoneStr THEN [e EXCEPT !.timestamp = PyNone]
    ELSE IF timestamp # "" THEN [e EXCEPT !.timestamp = PyStr(timestamp)]
    ELSE [e EXCEPT !.timestamp = PyStr(clock)]

\* str.strip() on the strings the callers pass: of these only " hi " and
\* " ab " have white space at their ends.
strip(s) ==
    CASE s = " hi " -> "hi"
      [] s = " ab " -> "ab"
      [] OTHER -> s

\* DiscordEmbed.set_title
set_title(e, title) ==
    IF Truthy(title) /\ Len(strip(title)) > TitleLength
    THEN [exc |-> "ValueError", e |-> e]
    ELSE [exc |-> NoExc,
          e |-> [e EXCEPT !.title = IF title = NoneStr THEN PyNone ELSE PyStr(strip(title))]]

\* DiscordEmbed.set_description
set_description(e, description) ==
    IF Truthy(description) /\ Len(strip(description)) > DescriptionLength
    THEN [exc |-> "ValueError", e |-> e]
    ELSE [exc |-> NoExc,
          e |-> [e EXCEPT !.description =
                    IF description = NoneStr THEN PyNone ELSE PyStr(strip(description))]]

\* DiscordEmbed.set_footer: the footer becomes the stripped str itself.
set_footer(e, footer) ==
    [exc |-> NoExc, e |-> [e EXCEPT !.footer = PyStr(strip(footer))]]

\* DiscordEmbed.set_author: the url is stored under the key 'ur'.
set_author(e, name, url, icon_url, proxy_icon_url) ==
    [exc |-> NoExc,
     e |-> [e EXCEPT !.author =
               PyDict(("name" :> strip(name))
                      @@ (IF Truthy(url) THEN "ur" :> url ELSE <<>>)
                      @@ (IF Truthy(icon_url) THEN "icon_url" :> icon_url ELSE <<>>)
                      @@ (IF Truthy(proxy_icon_url)
                          THEN "proxy_icon_url" :> proxy_icon_url ELSE <<>>))]]

\* DiscordEmbed.add_field: inline is Nothing for None; len(None) raises
\* TypeError when the embed was built with fields=None.
add_field(e, name, value, inline) ==
    IF e.fields.t # "list"
    THEN [exc |-> "TypeError", e |-> e]
    ELSE IF Len(e.fields.list) = Fields
    THEN [exc |-> "ValueError", e |-> e]
    ELSE [exc |-> NoExc,
          e |-> [e EXCEPT !.fields = PyList(Append(e.fields.list,
                    IF inline.some
                    THEN [name |-> strip(name), value |-> strip(value), inline |-> inline.v]
                    ELSE [name |-> strip(name), value |-> strip(value)]))]]

\* DiscordEmbed.json: the wire form holds the attributes that are truthy.
json(e) ==
    [a \in {b \in EmbedAttributes : PyTruthy(e[b])} |-> e[a]]

EMBED_LIMIT == 10

\* DiscordWebhook.__init__: urls is a list of (url, username, avatar_url).
DiscordWebhook(urls, content, embeds) ==
    [exc |-> IF Len(urls) = 0 THEN "ValueError" ELSE NoExc,
     hook |-> [urls |-> urls, content |-> content, embeds |-> embeds]]

\* DiscordWebhook.__has_valid_message
has_valid_message(h) ==
    (h.content # NoneStr /\ Len(h.content) > 0) \/ Len(h.embeds) > 0

\* The body DiscordWebhook.__execute builds for one target.
json_payload(h, target) ==
    Bind(SelectSeq(h.embeds, LAMBDA x : is_embed_valid(x).ret), LAMBDA valid :
        (IF Truthy(h.content) THEN <<<<"content", h.content>>>> ELSE <<>>)
        \o (IF Len(h.embeds) > 0
            THEN <<<<"embeds", [i \in 1..Len(valid) |-> json(valid[i])]>>>> ELSE <<>>)
        \o (IF Truthy(target[2]) THEN <<<<"username", target[2]>>>> ELSE <<>>)
        \o (IF Truthy(target[3]) THEN <<<<"avatar_url", target[3]>>>> ELSE <<>>))

\* DiscordWebhook.__execute for target i: answers[i] is the status code the
\* target answers with, 0 standing for a transport failure.
execute_one(h, i, answers) ==
    IF ~has_valid_message(h)
    THEN [posts |-> <<>>, exc |-> "ValueError"]
    ELSE IF \E k \in 1..Len(h.embeds) : is_embed_valid(h.embeds[k]).exc # NoExc
    THEN [posts |-> <<>>,
          exc |-> is_embed_valid(
                     h.embeds[CHOOSE k \in 1..Len(h.embeds) :
                                /\ is_embed_valid(h.embeds[k]).exc # NoExc
                                /\ \A j \in 1..(k-1) : is_embed_valid(h.embeds[j]).exc = NoExc]).exc]
    ELSE [posts |-> <<[status_code |-> answers[i], url |-> h.urls[i][1],
                       json |-> json_payload(h, h.urls[i]), wait |-> "true"]>>,
          exc |-> IF answers[i] = 0 THEN "ConnectionError" ELSE NoExc]

RECURSIVE execute_from(_, _, _)
execute_from(h, i, answers) ==
    IF i > Len(h.urls)
    THEN [posts |-> <<>>, exc |-> NoExc]
    ELSE Bind(execute_one(h, i, answers), LAMBDA one :
             IF one.exc # NoExc
             THEN one
             ELSE Bind(execute_from(h, i + 1, answers), LAMBDA rest :
                      [posts |-> one.posts \o rest.posts, exc |-> rest.exc]))

\* DiscordWebhook.execute
execute(h, answers) ==
    IF ~has_valid_message(h)
    THEN [posts |-> <<>>, exc |-> "ValueError"]
    ELSE execute_from(h, 1, answers)

\* DiscordWebhook.execute_on_urls (static)
execute_on_urls(urls, content, embeds, answers) ==
    Bind(DiscordWebhook(urls, content, embeds), LAMBDA w :
        IF w.exc # NoExc
        THEN [posts |-> <<>>, exc |-> w.exc]
        ELSE execute(w.hook, answers))

\* DiscordWebhook objects and the Python lists their _embeds refer to.
\* `embeds = []` in the signature of __init__ is evaluated once, when the
\* function is defined: lists[DefaultEmbeds] is that list object, and every
\* call that leaves the argument out stores a reference to it.
DefaultEmbeds == 1

NoWebhooks == [lists |-> <<<<>>>>, hooks |-> <<>>]

\* DiscordWebhook.__init__ among the objects w: embeds is the argument, a
\* list (Some) or left out (Nothing).  When exc is set no object results.
webhook_new(w, urls, content, embeds) ==
    Bind(DiscordWebhook(urls, content, IF embeds.some THEN embeds.v ELSE w.lists[DefaultEmbeds]),
         LAMBDA n :
        IF n.exc # NoExc
        THEN [exc |-> n.exc, w |-> w]
        ELSE IF embeds.some
        THEN [exc |-> NoExc,
              w |-> [lists |-> Append(w.lists, embeds.v),
                     hooks |-> Append(w.hooks, [urls |-> urls, content |-> content,
                                                embeds |-> Len(w.lists) + 1])]]
        ELSE [exc |-> NoExc,
              w |-> [lists |-> w.lists,
                     hooks |-> Append(w.hooks, [urls |-> urls, content |-> content,
                                                embeds |-> DefaultEmbeds])]])

\* DiscordWebhook.embeds: the list the i-th object refers to
embeds_of(w, i) == w.lists[w.hooks[i].embeds]

\* The i-th object with its list, as __has_valid_message and __execute read it.
hook_at(w, i) ==
    [urls |-> w.hooks[i].urls, content |-> w.hooks[i].content, embeds |-> embeds_of(w, i)]

\* DiscordWebhook.add_embed on the i-th object: e is Nothing for None.  The
\* append changes the list object, whoever else refers to it.
add_embed(w, i, e) ==
    IF Len(embeds_of(w, i)) = EMBED_LIMIT
    THEN [exc |-> "ValueError", w |-> w]
    ELSE IF ~e.some
    THEN [exc |-> "ValueError", w |-> w]
    ELSE [exc |-> NoExc,
          w |-> [w EXCEPT !.lists[w.hooks[i].embeds] = Append(@, e.v)]]

----------------------------------------------------------------------------
(* discord-notification.py *)

\* BOXART_RATIO = 13/18, kept as a fraction
BOXART_RATIO_NUM == 13
BOXART_RATIO_DEN == 18

\* int(round(num / den)): Python rounds halves to the even neighbour.
PyRound(num, den) ==
    LET q == num \div den
        rem == num % den
    IN  IF 2 * rem < den THEN q
        ELSE IF 2 * rem > den THEN q + 1
        ELSE IF q % 2 = 0 THEN q ELSE q + 1

\* str.replace(old, new) on a string held as a sequence of pieces
RECURSIVE ReplaceJoin(_, _, _)
ReplaceJoin(parts, old, new) ==
    IF Len(parts) = 0 THEN ""
    ELSE (IF Head(parts) = old THEN new ELSE Head(parts)) \o ReplaceJoin(Tail(parts), old, new)

\* The credentials files on disk: what Path(p).is_file() and json.load give.
\* Path('') is Path(), the directory '.'.
FileSystem ==
    [p \in {".", "token.json", "app.json", "partial.json", "broken.json"} |->
        CASE p = "." ->
               [json |-> [access_token |-> NoneStr, client_id |-> NoneStr,
                          client_secret |-> NoneStr],
                valid |-> FALSE, is_file |-> FALSE]
          [] p = "token.json" ->
               [json |-> [access_token |-> "tok0", client_id |-> NoneStr,
                          client_secret |-> NoneStr],
                valid |-> TRUE, is_file |-> TRUE]
          [] p = "app.json" ->
               [json |-> [access_token |-> NoneStr, client_id |-> "cid",
                          client_secret |-> "sec"],
                valid |-> TRUE, is_file |-> TRUE]
          [] p = "partial.json" ->
               [json |-> [access_token |-> NoneStr, client_id |-> "cid",
                          client_secret |-> NoneStr],
                valid |-> TRUE, is_file |-> TRUE]
          [] p = "broken.json" ->
               [json |-> [access_token |-> NoneStr, client_id |-> NoneStr,
                          client_secret |-> NoneStr],
                valid |-> FALSE, is_file |-> TRUE]]

\* load_json_file: the dict, or Nothing for None.
load_json_file(file_path) ==
    IF ~FileSystem[file_path].is_file THEN Nothing
    ELSE IF ~FileSystem[file_path].valid THEN Nothing
    ELSE Some(FileSystem[file_path].json)

\* DiscordNotificationScript.__authenticate_twitch: t is the current _twitch.
authenticate_twitch(t, path, r) ==
    Bind(load_json_file(path), LAMBDA auth :
        IF ~auth.some
        THEN [reqs |-> <<>>, log |-> <<"Invalid data in twitch auth file">>,
              s |-> t, exc |-> NoExc, calls |-> 1]
        ELSE Bind(TwitchNew(auth.v, r), LAMBDA n :
                 IF n.exc # NoExc
                 THEN [reqs |-> n.reqs, log |-> <<>>, s |-> t, exc |-> n.exc, calls |-> 1]
                 ELSE IF authenticated(n.s)
                 THEN [reqs |-> n.reqs, log |-> <<"Twitch Authentication successful">>,
                       s |-> n.s, exc |-> NoExc, calls |-> 1]
                 ELSE [reqs |-> n.reqs, log |-> <<"Could not authenticate with twitch">>,
                       s |-> NoTwitch, exc |-> NoExc, calls |-> 1]))

\* DiscordNotificationScript.__attempt_authentication
attempt_authentication(t, path, flag, r) ==
    IF flag /\ FileSystem[path].is_file /\ (~t.obj \/ ~authenticated(t))
    THEN authenticate_twitch(t, path, r)
    ELSE [reqs |-> <<>>, log |-> <<>>, s |-> t, exc |-> NoExc, calls |-> 0]

\* DiscordNotificationScript.__unauthenticate_twitch
unauthenticate_twitch(t, r) ==
    IF t.obj /\ authenticated(t)
    THEN revoke_my_access(t, r)
    ELSE [reqs |-> <<>>, s |-> t, exc |-> NoExc]

\* DiscordNotificationScript.__get_relavent_channel_info, called without a
\* user id: net[1..3] are the exchanges of the user, channel and game
\* lookups, each [r |-> response, ro |-> token endpoint's answer].
get_relavent_channel_info(t, uname, height, net) ==
    LET none == [game_id |-> "", title |-> "", name |-> "", height |-> 0,
                 game_name |-> "", boxart_url |-> "", width |-> 0]
    IN  IF ~t.obj
        THEN [ret |-> none, reqs |-> <<>>, s |-> t, exc |-> "AttributeError"]
        ELSE IF ~authenticated(t)
        THEN [ret |-> none, reqs |-> <<>>, s |-> t, exc |-> "NotAuthenticatedError"]
        ELSE
    Bind(get_user_info(t, uname, net[1].r, net[1].ro), LAMBDA u :
        IF u.exc # NoExc
        THEN [ret |-> none, reqs |-> u.reqs, s |-> u.s, exc |-> u.exc]
        ELSE IF ~u.ret.some
        THEN [ret |-> none, reqs |-> u.reqs, s |-> u.s, exc |-> "ValueError"]
        ELSE
    Bind(get_channel_info(u.s, u.ret.v.id, net[2].r, net[2].ro), LAMBDA c :
        IF c.exc # NoExc
        THEN [ret |-> none, reqs |-> u.reqs \o c.reqs, s |-> c.s, exc |-> c.exc]
        ELSE IF ~c.ret.some
        THEN [ret |-> none, reqs |-> u.reqs \o c.reqs, s |-> c.s, exc |-> "ValueError"]
        ELSE
    Bind(get_game_info(c.s, c.ret.v.game_id, net[3].r, net[3].ro), LAMBDA g :
        LET width == PyRound(height * BOXART_RATIO_NUM, BOXART_RATIO_DEN)
            dims == ToString(width) \o "x" \o ToString(height)
            template == IF g.ret.some THEN g.ret.v.box_art_url ELSE <<>>
        IN  IF g.exc # NoExc
            THEN [ret |-> none, reqs |-> u.reqs \o c.reqs \o g.reqs, s |-> g.s, exc |-> g.exc]
            ELSE [ret |-> [game_id |-> c.ret.v.game_id, title |-> c.ret.v.title,
                           name |-> c.ret.v.broadcaster_name, height |-> height,
                           game_name |-> c.ret.v.game_name,
                           boxart_url |-> ReplaceJoin(template, "{width}x{height}", dims),
                           width |-> width],
                  reqs |-> u.reqs \o c.reqs \o g.reqs,
                  s |-> g.s, exc |-> NoExc])))

\* [(url, None, None) for url in self._hooks_list]
Targets(hooks) == [i \in 1..Len(hooks) |-> <<hooks[i], NoneStr, NoneStr>>]

\* DiscordNotificationScript.__on_start, its try / except / else clauses.
on_start_try(t, uname, height, do_start, hooks, start_msg, net, answers, clock) ==
    Bind(get_relavent_channel_info(t, uname, height, net), LAMBDA i :
        IF i.exc \in {"ValueError", "NotAuthenticatedError"}
        THEN [reqs |-> i.reqs, posts |-> <<>>,
              log |-> <<"Can not retrieve channel information: " \o i.exc>>,
              s |-> i.s, exc |-> NoExc]
        ELSE IF i.exc # NoExc
        THEN [reqs |-> i.reqs, posts |-> <<>>, log |-> <<>>, s |-> i.s, exc |-> i.exc]
        ELSE IF ~do_start
        THEN [reqs |-> i.reqs, posts |-> <<>>, log |-> <<>>, s |-> i.s, exc |-> NoExc]
        ELSE LET title == i.ret.name \o " is streaming " \o i.ret.game_name
                          \o " on twitch.tv  | " \o i.ret.title
                 stream_url == "https://www.twitch.tv/" \o Fmt(uname) \o "/"
                 embed0 == set_timestamp(
                              DiscordEmbed([url |-> PyStr(stream_url), title |-> PyStr(title),
                                            image |-> PyDict([url |-> i.ret.boxart_url,
                                                              height |-> i.ret.height,
                                                              width |-> i.ret.width])]),
                              "", clock)
             IN  Bind(execute_on_urls(Targets(hooks), start_msg, <<embed0>>, answers), LAMBDA x :
                     [reqs |-> i.reqs, posts |-> x.posts, log |-> <<>>, s |-> i.s,
                      exc |-> x.exc]))

\* The flag left where it was when the handler is left by an exception.
on_start_flag_after_try(o, streaming) == IF o.exc = NoExc THEN TRUE ELSE streaming

\* DiscordNotificationScript.__on_start, the flag it leaves: the finally
\* clause sets it on every way out.  o is what the try statement did,
\* streaming the flag before the call.
on_start_flag(o, streaming) == TRUE

\* DiscordNotificationScript.__on_start
on_start(t, uname, height, do_start, hooks, start_msg, streaming, net, answers, clock) ==
    Bind(on_start_try(t, uname, height, do_start, hooks, start_msg, net, answers, clock),
        LAMBDA o : [is_streaming |-> on_start_flag(o, streaming), reqs |-> o.reqs,
                    posts |-> o.posts, log |-> o.log, s |-> o.s, exc |-> o.exc])

\* DiscordNotificationScript.__on_stop: net[1..2] are the exchanges of the
\* user and video lookups; streaming is the flag before the call.
on_stop(t, uname, do_stop, hooks, stop_msg, streaming, net, answers, clock) ==
    IF ~t.obj \/ ~authenticated(t)
    THEN [is_streaming |-> streaming, reqs |-> <<>>, posts |-> <<>>, s |-> t,
          exc |-> "NotAuthenticatedError"]
    ELSE
    Bind(get_user_info(t, uname, net[1].r, net[1].ro), LAMBDA u :
        IF u.exc # NoExc \/ ~u.ret.some
        THEN [is_streaming |-> streaming, reqs |-> u.reqs,
              posts |-> <<>>, s |-> u.s, exc |-> IF u.exc # NoExc THEN u.exc ELSE "ValueError"]
        ELSE
    Bind(get_videos_info(u.s, Nothing, u.ret.v.id, NoneStr, net[2].r, net[2].ro), LAMBDA v :
        IF v.exc # NoExc \/ ~v.ret.some
        THEN \* unpacking a None result raises TypeError
             [is_streaming |-> streaming, reqs |-> u.reqs \o v.reqs,
              posts |-> <<>>, s |-> v.s, exc |-> IF v.exc # NoExc THEN v.exc ELSE "TypeError"]
        ELSE IF ~do_stop
        THEN [is_streaming |-> FALSE, reqs |-> u.reqs \o v.reqs, posts |-> <<>>, s |-> v.s,
              exc |-> NoExc]
        ELSE LET video == v.ret.v[1]
                 embed0 == set_timestamp(
                              DiscordEmbed([url |-> PyStr(Get(video, "url", "")),
                                            title |-> PyStr(Get(video, "title", ""))]),
                              "", clock)
             IN  Bind(execute_on_urls(Targets(hooks), stop_msg, <<embed0>>, answers), LAMBDA x :
                     [is_streaming |-> IF x.exc = NoExc THEN FALSE ELSE streaming,
                      reqs |-> u.reqs \o v.reqs, posts |-> x.posts, s |-> v.s,
                      exc |-> x.exc])))

----------------------------------------------------------------------------
(* The environment: what the host, the platform and the webhooks may send *)

MaxHooks == 2

HookUrl(i) == "https://discord.com/api/webhooks/" \o ToString(i)
HookLists == {[i \in 1..n |-> HookUrl(i)] : n \in 0..MaxHooks}

Paths == DOMAIN FileSystem

\* The text and checkbox settings vary together, to keep the settings
\* surface small: two sets of texts, each with two settings of the notices.
Profiles ==
    {[username |-> "alice", boxart_height |-> 72,
      discord_stop_msg |-> "The stream has ended. Go check out the VOD!",
      discord_start_msg_x |-> "The stream has started, come watch!",
      discord_do_start |-> b, discord_do_stop |-> b] : b \in BOOLEAN}
    \cup
    {[username |-> "141981764", boxart_height |-> 480,
      discord_stop_msg |-> "", discord_start_msg_x |-> "",
      discord_do_start |-> b, discord_do_stop |-> ~b] : b \in BOOLEAN}

\* The obs_data settings object handed to script_update.
Settings ==
    {[username |-> pr.username, boxart_height |-> pr.boxart_height,
      twitch_auth_path |-> p, discord_stop_msg |-> pr.discord_stop_msg,
      discord_start_msg_x |-> pr.discord_start_msg_x, discord_do_start |-> pr.discord_do_start,
      discord_do_stop |-> pr.discord_do_stop, hook_urls_list |-> h] :
        pr \in Profiles, p \in Paths, h \in HookLists}

Plain(status) == Response(status, NoneStr, <<>>, NoneStr, NoneStr, NoneStr)

\* Answers of the token endpoint.
TokenAnswers ==
    {Response(200, NoneStr, <<>>, "tok1", NoneStr, NoneStr),
     Response(200, NoneStr, <<>>, "tok2", "ref1", NoneStr),
     Response(200, NoneStr, <<>>, NoneStr, NoneStr, NoneStr),
     Plain(400), TransportError}

\* Answers of the validation endpoint.
ValidationAnswers ==
    {Response(200, NoneStr, <<>>, NoneStr, NoneStr, "cid"), Plain(401), TransportError}

\* Answers of the revoke endpoint.
RevokeAnswers == {Plain(200), Plain(400), TransportError}

\* Answers of a helix endpoint whose successful body carries data.
ApiAnswers(data) ==
    {Response(200, NoneStr, data, NoneStr, NoneStr, NoneStr),
     Plain(200),
     Response(401, NoneStr, <<>>, NoneStr, NoneStr, NoneStr),
     Response(401, TwitchChallenge, <<>>, NoneStr, NoneStr, NoneStr),
     Response(401, ExpectedChallenge, <<>>, NoneStr, NoneStr, NoneStr),
     Plain(500), TransportError}

\* A request and the token exchange it may set off: the token endpoint is
\* asked only after a 401 carrying the expected challenge.
Exchanges(data) ==
    {[r |-> r, ro |-> ro] : r \in ApiAnswers(data),
                            ro \in TokenAnswers \cup {NoResponse}}
NeedsToken(r) == r.kind = "response" /\ r.status_code = 401 /\ r.www = ExpectedChallenge
ExchangeSet(data) ==
    {x \in Exchanges(data) : NeedsToken(x.r) <=> x.ro # NoResponse}
NoExchange == [r |-> NoResponse, ro |-> NoResponse]

\* The exchanges the script's handlers are driven with: found, not found,
\* the token rejected, the platform unreachable.
HostExchangeSet(data) ==
    {x \in ExchangeSet(data) :
        x.r \in {Response(200, NoneStr, data, NoneStr, NoneStr, NoneStr), Plain(200),
                 Response(401, TwitchChallenge, <<>>, NoneStr, NoneStr, NoneStr),
                 TransportError}}

\* The token endpoint's answers the script's handlers are driven with.
HostTokenAnswers ==
    {Response(200, NoneStr, <<>>, "tok1", NoneStr, NoneStr),
     Response(200, NoneStr, <<>>, NoneStr, NoneStr, NoneStr),
     Plain(400), TransportError}

UserData(uname) == <<[id |-> "141981764", login |-> Fmt(uname)]>>
ChannelData == <<[game_id |-> "509658", title |-> "My Title",
                  game_name |-> "GameX", broadcaster_name |-> "Alice"]>>
GameData == <<[id |-> "509658", name |-> "GameX",
               box_art_url |-> <<"https://static-cdn.jtvnw.net/ttv-boxart/509658-",
                                 "{width}x{height}", ".jpg">>]>>
VideoData == <<[url |-> "https://www.twitch.tv/videos/1", id |-> "1", title |-> "Last night"],
               [url |-> "https://www.twitch.tv/videos/2", id |-> "2", title |-> "Older"]>>

\* Status codes a webhook answers with; 0 is a transport failure.
HookStatus == {200, 500, 0}
HookAnswers(n) == [1..n -> HookStatus]

\* What datetime.now().astimezone().isoformat() gives.
Clock == "2021-03-01T20:00:00+00:00"

----------------------------------------------------------------------------
(* The script as the host drives it *)

\* The module loaded: DiscordNotificationScript.__init__ and script_load
\* have run, no Twitch object exists.
Init ==
    /\ username = NoneStr
    /\ boxart_height = 72
    /\ twitch_auth_path = "."
    /\ hooks_list = <<>>
    /\ discord_start_msg = NoneStr
    /\ discord_stop_msg = NoneStr
    /\ do_discord_start_notice = FALSE
    /\ do_discord_stop_notice = FALSE
    /\ twitch = NoTwitch
    /\ is_streaming = FALSE
    /\ loaded = FALSE
    /\ event = [name |-> "init"]
    /\ raised = NoExc
    /\ ret = Nothing
    /\ reqs = <<>>
    /\ posts = <<>>
    /\ log = <<>>
    /\ auth_calls = 0
    /\ embed = Nothing
    /\ webhooks = NoWebhooks

\* The answers the endpoint a constructor would call may give; no endpoint
\* is called unless __attempt_authentication(flag) builds a Twitch object.
AuthAnswers(path, flag) ==
    IF ~(flag /\ load_json_file(path).some /\ (~twitch.obj \/ ~authenticated(twitch)))
    THEN {NoResponse}
    ELSE IF FileSystem[path].json.access_token # NoneStr
    THEN ValidationAnswers
    ELSE HostTokenAnswers

\* OBS_FRONTEND_EVENT_FINISHED_LOADING -> __on_frontend_loaded
Loaded ==
    \E r \in AuthAnswers(twitch_auth_path, TRUE) :
        \E a \in {attempt_authentication(twitch, twitch_auth_path, TRUE, r)} :
            /\ twitch' = a.s
            /\ loaded' = IF a.exc = NoExc THEN TRUE ELSE loaded
            /\ event' = [name |-> "Loaded"]
            /\ raised' = a.exc
            /\ reqs' = a.reqs
            /\ posts' = <<>>
            /\ log' = a.log
            /\ auth_calls' = a.calls
            /\ UNCHANGED <<cfgvars, is_streaming, ret, embed, webhooks>>

\* on_properties_updated asking for authentication whatever the path is.
on_properties_updated_always(t, path, is_loaded, settings, r) ==
    IF is_loaded
    THEN attempt_authentication(t, settings.twitch_auth_path, TRUE, r)
    ELSE [reqs |-> <<>>, log |-> <<>>, s |-> t, exc |-> NoExc, calls |-> 0]

\* DiscordNotificationScript.on_properties_updated, the part that decides
\* on authentication: path is the held _twitch_auth_path.
on_properties_updated(t, path, is_loaded, settings, r) ==
    LET authTwitch == settings.twitch_auth_path # path
    IN  IF is_loaded
        THEN attempt_authentication(t, settings.twitch_auth_path, authTwitch, r)
        ELSE [reqs |-> <<>>, log |-> <<>>, s |-> t, exc |-> NoExc, calls |-> 0]

\* script_update -> on_properties_updated
SettingsChanged ==
    \E settings \in Settings :
    \E r \in AuthAnswers(settings.twitch_auth_path,
                       loaded /\ settings.twitch_auth_path # twitch_auth_path) :
        \E a \in {on_properties_updated(twitch, twitch_auth_path, loaded, settings, r)} :
            /\ discord_start_msg' = settings.discord_start_msg_x
            /\ discord_stop_msg' = settings.discord_stop_msg
            /\ username' = settings.username
            /\ boxart_height' = settings.boxart_height
            /\ do_discord_start_notice' = settings.discord_do_start
            /\ do_discord_stop_notice' = settings.discord_do_stop
            /\ hooks_list' = settings.hook_urls_list
            /\ twitch_auth_path' = settings.twitch_auth_path
            /\ twitch' = a.s
            /\ event' = [name |-> "SettingsChanged", settings |-> settings,
                          prior_path |-> twitch_auth_path]
            /\ raised' = a.exc
            /\ reqs' = a.reqs
            /\ posts' = <<>>
            /\ log' = a.log
            /\ auth_calls' = a.calls
            /\ UNCHANGED <<is_streaming, loaded, ret, embed, webhooks>>

\* The exchanges __on_start can go through from the current state: a
\* lookup is answered only if the one before it let the handler go on.
StartNets ==
    IF ~twitch.obj \/ ~authenticated(twitch)
    THEN {<<NoExchange, NoExchange, NoExchange>>}
    ELSE UNION {
        Bind(get_user_info(twitch, username, x1.r, x1.ro), LAMBDA u :
            IF u.exc # NoExc \/ ~u.ret.some
            THEN {<<x1, NoExchange, NoExchange>>}
            ELSE UNION {
                Bind(get_channel_info(u.s, u.ret.v.id, x2.r, x2.ro), LAMBDA c :
                    IF c.exc # NoExc \/ ~c.ret.some
                    THEN {<<x1, x2, NoExchange>>}
                    ELSE {<<x1, x2, x3>> : x3 \in HostExchangeSet(GameData)})
                : x2 \in HostExchangeSet(ChannelData)})
        : x1 \in HostExchangeSet(UserData(username))}

\* OBS_FRONTEND_EVENT_STREAMING_STARTED -> __on_start
StreamStarted ==
    \E net \in StartNets :
    \E answers \in IF net[3] # NoExchange /\ do_discord_start_notice
                    THEN HookAnswers(Len(hooks_list)) ELSE {<<>>} :
        \E o \in {on_start(twitch, username, boxart_height, do_discord_start_notice,
                          hooks_list, discord_start_msg, is_streaming, net, answers,
                          Clock)} :
            /\ twitch' = o.s
            /\ is_streaming' = o.is_streaming
            /\ event' = [name |-> "StreamStarted", answers |-> answers, net |-> net]
            /\ raised' = o.exc
            /\ reqs' = o.reqs
            /\ posts' = o.posts
            /\ log' = o.log
            /\ auth_calls' = 0
            /\ UNCHANGED <<cfgvars, loaded, ret, embed, webhooks>>

\* The exchanges __on_stop can go through from the current state.
StopNets ==
    IF ~twitch.obj \/ ~authenticated(twitch)
    THEN {<<NoExchange, NoExchange>>}
    ELSE UNION {
        Bind(get_user_info(twitch, username, x1.r, x1.ro), LAMBDA u :
            IF u.exc # NoExc \/ ~u.ret.some
            THEN {<<x1, NoExchange>>}
            ELSE {<<x1, x2>> : x2 \in HostExchangeSet(VideoData)})
        : x1 \in HostExchangeSet(UserData(username))}

\* OBS_FRONTEND_EVENT_STREAMING_STOPPED -> __on_stop
StreamStopped ==
    \E net \in StopNets :
    \E answers \in IF net[2] # NoExchange /\ do_discord_stop_notice
                    THEN HookAnswers(Len(hooks_list)) ELSE {<<>>} :
        \E o \in {on_stop(twitch, username, do_discord_stop_notice, hooks_list,
                         discord_stop_msg, is_streaming, net, answers, Clock)} :
            /\ twitch' = o.s
            /\ is_streaming' = o.is_streaming
            /\ event' = [name |-> "StreamStopped"]
            /\ raised' = o.exc
            /\ reqs' = o.reqs
            /\ posts' = o.posts
            /\ log' = <<>>
            /\ auth_calls' = 0
            /\ UNCHANGED <<cfgvars, loaded, ret, embed, webhooks>>

\* OBS_FRONTEND_EVENT_SCENE_CHANGED -> __on_scene_changed
SceneChanged ==
    /\ event' = [name |-> "SceneChanged"]
    /\ raised' = NoExc
    /\ reqs' = <<>>
    /\ posts' = <<>>
    /\ log' = <<>>
    /\ auth_calls' = 0
    /\ UNCHANGED <<cfgvars, twitch, is_streaming, loaded, ret, embed, webhooks>>

\* __unauthenticate_twitch as the callback of name
Unauthenticate(name) ==
    \E r \in RevokeAnswers :
        \E a \in {unauthenticate_twitch(twitch, r)} :
            /\ twitch' = a.s
            /\ event' = [name |-> name]
            /\ raised' = a.exc
            /\ reqs' = a.reqs
            /\ posts' = <<>>
            /\ log' = <<>>
            /\ auth_calls' = 0
            /\ UNCHANGED <<cfgvars, is_streaming, loaded, ret, embed, webhooks>>

\* OBS_FRONTEND_EVENT_EXIT -> __unauthenticate_twitch
Exit == Unauthenticate("Exit")

\* script_unload -> on_unloaded
Unloaded == Unauthenticate("Unloaded")

\* OBSScript.handle_events: every event has the one callback on_loaded
\* registered for it, and what the callback raises leaves handle_events.
handle_events ==
    \/ Loaded
    \/ Exit
    \/ SceneChanged
    \/ StreamStarted
    \/ StreamStopped

Next ==
    \/ handle_events
    \/ SettingsChanged
    \/ Unloaded

Spec == Init /\ [][Next]_vars

----------------------------------------------------------------------------
(* The Twitch client as a caller drives it *)

Credentials ==
    {[access_token |-> at, client_id |-> cid, client_secret |-> sec] :
        at \in {NoneStr, "", "tok0"}, cid \in {NoneStr, "", "cid"}, sec \in {NoneStr, "sec"}}

\* The answers of the endpoint Twitch(auth) calls, if it calls one.
ConstructorAnswers(auth) ==
    IF auth.access_token # NoneStr
    THEN (IF Truthy(auth.access_token) THEN ValidationAnswers ELSE {NoResponse})
    ELSE IF auth.client_id # NoneStr /\ auth.client_secret # NoneStr
    THEN TokenAnswers
    ELSE {NoResponse}

\* The longest id list a caller passes.
MaxIds == 2

\* Logins and ids in turn: short lists, a list as long as the limit of one
\* request, and a list one longer.
IdLists ==
    {[i \in 1..n |-> IF i % 2 = 1 THEN "alice" ELSE "141981764"] :
        n \in (0..MaxIds) \cup {UserRequests, UserRequests + 1}}

\* The games a caller asks for: short lists, a list as long as the limit
\* of one request, and a list one longer.
GameLists ==
    {<<>>, <<"509658">>, <<"GameX", "509658">>}
    \cup {[i \in 1..n |-> IF i % 2 = 1 THEN "GameX" ELSE "509658"] :
             n \in {GamesRequests, GamesRequests + 1}}

\* What the callers of the client and the network saw of the last call.
Observe(name, args, x, o) ==
    /\ event' = [r |-> x.r, ro |-> x.ro, response |-> o.response, name |-> name,
                  args |-> args]
    /\ raised' = o.exc
    /\ ret' = (name :> o.ret)
    /\ reqs' = o.reqs
    /\ twitch' = o.s
    /\ UNCHANGED <<cfgvars, is_streaming, loaded, posts, log, auth_calls, embed, webhooks>>

\* twitch = Twitch(auth)
NewTwitch ==
    \E auth \in Credentials :
    \E r \in ConstructorAnswers(auth) :
    \E n \in {TwitchNew(auth, r)} :
        /\ twitch' = IF n.exc = NoExc THEN n.s ELSE twitch
        /\ event' = [r |-> r, auth |-> auth, name |-> "Twitch"]
        /\ raised' = n.exc
        /\ ret' = Nothing
        /\ reqs' = n.reqs
        /\ UNCHANGED <<cfgvars, is_streaming, loaded, posts, log, auth_calls, embed, webhooks>>

\* twitch.get_users_info(ids)
GetUsersInfo ==
    /\ twitch.obj
    /\ \E ids \in IdLists :
       \E x \in ExchangeSet(UserData("alice")) :
       \E o \in {get_users_info(twitch, ids, x.r, x.ro)} :
           Observe("get_users_info", [ids |-> ids], x, o)

\* twitch.get_user_info(user)
GetUserInfo ==
    /\ twitch.obj
    /\ \E user \in {"alice", "141981764"} :
       \E x \in ExchangeSet(UserData(user)) \cup ExchangeSet(UserData(user) \o UserData(user)) :
       \E o \in {get_user_info(twitch, user, x.r, x.ro)} :
           Observe("get_user_info", [user |-> user], x, o)

\* twitch.get_channel_info(user_id)
GetChannelInfo ==
    /\ twitch.obj
    /\ \E x \in ExchangeSet(ChannelData) :
       \E o \in {get_channel_info(twitch, "141981764", x.r, x.ro)} :
           Observe("get_channel_info", [user_id |-> "141981764"], x, o)

\* twitch.get_videos_info(video_ids, user_id, game_id)
GetVideosInfo ==
    /\ twitch.obj
    /\ \E video_ids \in {Nothing, Some(<<"1">>)} :
       \E user_id \in {NoneStr, "141981764"} :
       \E game_id \in {NoneStr, "509658"} :
       \E x \in ExchangeSet(VideoData) :
       \E o \in {get_videos_info(twitch, video_ids, user_id, game_id, x.r, x.ro)} :
           Observe("get_videos_info",
                   [user_id |-> user_id, video_ids |-> video_ids, game_id |-> game_id], x,
                   [ret |-> o.ret, reqs |-> o.reqs, s |-> o.s, exc |-> o.exc,
                    response |-> o.response])

\* twitch.get_games_info(games)
GetGamesInfo ==
    /\ twitch.obj
    /\ \E games \in GameLists :
       \E x \in ExchangeSet(GameData) :
       \E o \in {get_games_info(twitch, games, x.r, x.ro)} :
           Observe("get_games_info", [games |-> games], x, o)

\* twitch.get_game_info(game)
GetGameInfo ==
    /\ twitch.obj
    /\ \E game \in {"509658", "GameX"} :
       \E x \in ExchangeSet(GameData) :
       \E o \in {get_game_info(twitch, game, x.r, x.ro)} :
           Observe("get_game_info", [game |-> game], x, o)

\* twitch.revoke_my_access()
RevokeMyAccess ==
    /\ twitch.obj
    /\ \E r \in RevokeAnswers :
       \E o \in {revoke_my_access(twitch, r)} :
           /\ twitch' = o.s
           /\ event' = [r |-> r, name |-> "revoke_my_access"]
           /\ raised' = o.exc
           /\ ret' = Nothing
           /\ reqs' = o.reqs
           /\ UNCHANGED <<cfgvars, is_streaming, loaded, posts, log, auth_calls, embed, webhooks>>

NextTwitch ==
    \/ NewTwitch
    \/ GetUsersInfo
    \/ GetUserInfo
    \/ GetChannelInfo
    \/ GetVideosInfo
    \/ GetGamesInfo
    \/ GetGameInfo
    \/ RevokeMyAccess

SpecTwitch == Init /\ [][NextTwitch]_vars

----------------------------------------------------------------------------
(* The Discord client as a caller drives it *)

\* A string of n characters without white space.
RECURSIVE Rep(_)
Rep(n) ==
    IF n = 0 THEN ""
    ELSE IF n % 2 = 1 THEN "x" \o Rep(n - 1)
    ELSE Bind(Rep(n \div 2), LAMBDA h : h \o h)

HalfLength == MaxLength \div 2

\* A keyword argument that is passed with one of vals, or left out.
Opt(key, vals) == {<<>>} \cup {key :> v : v \in vals}

\* A list of fields one short of the limit, as a caller passes it to the
\* constructor.
InitialFields == [k \in 1..(Fields - 1) |-> [name |-> "ab", value |-> "cd"]]

\* The keyword dicts a caller constructs an embed with: two texts of half
\* the length limit reach it exactly, one character more or a footer
\* exceeds it; or nothing but a list of fields.
EmbedKwargs ==
    {t @@ d @@ f @@ fl @@ c :
        t \in Opt("title", {PyStr(Rep(HalfLength))}),
        d \in Opt("description", {PyStr(Rep(HalfLength)), PyStr(Rep(HalfLength + 1))}),
        f \in Opt("footer", {PyDict([text |-> "ft"])}),
        fl \in Opt("fields", {PyNone}),
        c \in Opt("color", {PyInt(0)})}
    \cup {"fields" :> PyList(InitialFields)}

\* The fields a caller adds: (name, value, inline).
FieldInputs == {<<" ab ", "cd", Nothing>>, <<"name", "value", Some(TRUE)>>}

\* The most fields a caller adds to one embed; a list that is one short of
\* the limit of fields, or at it, takes add_field whatever this is.
MaxAdded == 2

\* What the caller and the network saw of a call on the embed.
EmbedCall(call, e, exc, result, sent) ==
    /\ embed' = e
    /\ event' = call
    /\ raised' = exc
    /\ ret' = result
    /\ posts' = sent
    /\ UNCHANGED <<cfgvars, twitch, is_streaming, loaded, reqs, log, auth_calls, webhooks>>

\* embed = DiscordEmbed(**kwargs)
NewEmbed ==
    \E kwargs \in EmbedKwargs :
        EmbedCall([kwargs |-> kwargs, name |-> "DiscordEmbed"],
                  Some(DiscordEmbed(kwargs)), NoExc, Nothing, <<>>)

\* embed.set_title(title)
SetTitle ==
    /\ embed.some
    /\ \E title \in {NoneStr, " hi ", Rep(TitleLength + 1)} :
       \E o \in {set_title(embed.v, title)} :
           EmbedCall([title |-> title, name |-> "set_title"],
                     Some(o.e), o.exc, Nothing, <<>>)

\* embed.set_description(description)
SetDescription ==
    /\ embed.some
    /\ \E description \in {"", Rep(DescriptionLength + 1)} :
       \E o \in {set_description(embed.v, description)} :
           EmbedCall([description |-> description, name |-> "set_description"],
                     Some(o.e), o.exc, Nothing, <<>>)

\* embed.set_footer(footer)
SetFooter ==
    /\ embed.some
    /\ \E o \in {set_footer(embed.v, " hi ")} :
           EmbedCall([footer |-> " hi ", name |-> "set_footer"],
                     Some(o.e), o.exc, Nothing, <<>>)

\* embed.set_author(name, url, icon_url, proxy_icon_url)
SetAuthor ==
    /\ embed.some
    /\ \E o \in {set_author(embed.v, " ab ", "https://twitch.tv/alice", NoneStr, NoneStr)} :
           EmbedCall([author |-> " ab ", name |-> "set_author"],
                     Some(o.e), o.exc, Nothing, <<>>)

\* embed.add_field(name, value, inline)
AddField ==
    /\ embed.some
    /\ embed.v.fields.t = "list"
         => \/ Len(embed.v.fields.list) < MaxAdded
            \/ Len(embed.v.fields.list) >= Fields - 1
    /\ \E f \in FieldInputs :
       \E o \in {add_field(embed.v, f[1], f[2], f[3])} :
           EmbedCall([name |-> "add_field", field |-> f], Some(o.e), o.exc, Nothing, <<>>)

\* embed.is_embed_valid()
IsEmbedValid ==
    /\ embed.some
    /\ \E o \in {is_embed_valid(embed.v)} :
           EmbedCall([name |-> "is_embed_valid"], embed, o.exc,
                     IF o.exc = NoExc THEN Some(o.ret) ELSE Nothing, <<>>)

\* embed.json
Json ==
    /\ embed.some
    /\ EmbedCall([name |-> "json"], embed, NoExc, [json |-> json(embed.v)], <<>>)

\* DiscordWebhook.execute_on_urls(urls, content, [embed])
ExecuteOnUrls ==
    /\ embed.some
    /\ \E content \in {NoneStr, "live"} :
       \E answers \in HookAnswers(1) :
       \E o \in {execute_on_urls(Targets(<<HookUrl(1)>>), content, <<embed.v>>, answers)} :
           EmbedCall([name |-> "execute_on_urls", content |-> content, answers |-> answers],
                     embed, o.exc, Nothing, o.posts)

NextDiscord ==
    \/ NewEmbed
    \/ SetTitle
    \/ SetDescription
    \/ SetFooter
    \/ SetAuthor
    \/ AddField
    \/ IsEmbedValid
    \/ Json
    \/ ExecuteOnUrls

SpecDiscord == Init /\ [][NextDiscord]_vars

----------------------------------------------------------------------------
(* DiscordWebhook objects as a caller drives them *)

\* The most DiscordWebhook objects a caller holds.
MaxWebhooks == 2

\* The length a list of embeds grows to by add_embed; a list that is one
\* short of EMBED_LIMIT, or at it, takes add_embed whatever this is.
MaxAddedEmbeds == 1

\* An embed with a title, one with every attribute None (fields = None),
\* and one that holds a field.
LiveEmbed == DiscordEmbed("title" :> PyStr("Live"))
NullEmbed == DiscordEmbed("fields" :> PyNone)
FieldedEmbed == add_field(DiscordEmbed(<<>>), "name", "value", Nothing).e

\* The embed a caller hands to add_embed, Nothing for None.
AddedEmbeds == {Some(LiveEmbed), Some(NullEmbed), Some(FieldedEmbed), Nothing}

\* The embeds argument of the constructor: left out, an empty list, or a
\* list one short of EMBED_LIMIT.
EmbedsArguments ==
    {Nothing, Some(<<>>), Some([k \in 1..(EMBED_LIMIT - 1) |-> LiveEmbed])}

\* The targets a webhook is constructed with: none, or all of the hooks.
TargetLists == {Targets(h) : h \in {l \in HookLists : Len(l) \in {0, MaxHooks}}}

\* What the caller and the network saw of a call on the webhook objects.
WebhookCall(call, w, exc, sent) ==
    /\ webhooks' = w
    /\ event' = call
    /\ raised' = exc
    /\ posts' = sent
    /\ UNCHANGED <<cfgvars, twitch, is_streaming, loaded, ret, reqs, log, auth_calls, embed>>

\* DiscordWebhook(urls, content) or DiscordWebhook(urls, content, embeds)
NewWebhook ==
    /\ Len(webhooks.hooks) < MaxWebhooks
    /\ \E urls \in TargetLists :
       \E content \in {NoneStr, "", "live"} :
       \E embeds \in EmbedsArguments :
       \E o \in {webhook_new(webhooks, urls, content, embeds)} :
           WebhookCall([name |-> "DiscordWebhook", urls |-> urls, content |-> content,
                        embeds |-> embeds],
                       o.w, o.exc, <<>>)

\* hook.add_embed(e), hook being the i-th object
AddEmbed ==
    \E i \in 1..Len(webhooks.hooks) :
        /\ \/ Len(embeds_of(webhooks, i)) < MaxAddedEmbeds
           \/ Len(embeds_of(webhooks, i)) >= EMBED_LIMIT - 1
        /\ \E e \in AddedEmbeds :
           \E o \in {add_embed(webhooks, i, e)} :
               WebhookCall([embed |-> e, name |-> "add_embed", hook |-> i], o.w, o.exc, <<>>)

\* hook.execute(), hook being the i-th object
Execute ==
    \E i \in 1..Len(webhooks.hooks) :
    \E answers \in HookAnswers(Len(webhooks.hooks[i].urls)) :
    \E o \in {execute(hook_at(webhooks, i), answers)} :
        WebhookCall([name |-> "execute", hook |-> i, answers |-> answers],
                    webhooks, o.exc, o.posts)

NextWebhook ==
    \/ NewWebhook
    \/ AddEmbed
    \/ Execute

SpecWebhook == Init /\ [][NextWebhook]_vars

----------------------------------------------------------------------------
(* Properties of the script *)

HostEvents == {"Loaded", "Exit", "SceneChanged", "StreamStarted", "StreamStopped"}

Session == twitch.obj /\ authenticated(twitch)

\* C1: whatever the state of the script, a host event dispatched through
\* handle_events returns normally: nothing a handler raises reaches the host.
C1_NoFailureReachesHost ==
    event.name \in HostEvents => raised = NoExc

\* C2: StreamStopped handled without an authenticated session surfaces
\* NotAuthenticated, posts to no webhook and leaves the 'is streaming' flag
\* false, also when it was true before.
C2_StopWithoutSession ==
    [][(event'.name = "StreamStopped" /\ ~Session)
        => /\ is_streaming' = FALSE
           /\ posts' = <<>>
           /\ raised' = "NotAuthenticatedError"]_vars

\* C3: after StreamStarted has been handled the 'is streaming' flag is true,
\* whether the lookup succeeded or failed, whether a notice was asked for,
\* and whether the delivery succeeded, failed or raised.
C3_StreamingAfterStart ==
    event.name = "StreamStarted" => is_streaming

\* C3 witness: a webhook delivery that raised after the lookups succeeded.
C3_Witness ==
    /\ event.name = "StreamStarted"
    /\ raised = "ConnectionError"
    /\ Len(reqs) = 3
    /\ Len(posts) > 0
    /\ is_streaming

\* C7: a SettingsChanged that brings another credentials path, one that is
\* a readable credentials file, makes the script attempt authentication
\* with it, in whatever state the script is.
C7_PathChangeAuthenticates ==
    [][(/\ event'.name = "SettingsChanged"
        /\ event'.settings.twitch_auth_path # twitch_auth_path
        /\ load_json_file(event'.settings.twitch_auth_path).some)
        => auth_calls' = 1]_vars

\* C8: a SettingsChanged whose credentials path is the held one attempts no
\* authentication and leaves the platform session as it was, while the
\* username, webhook list, message templates and box-art height take the
\* new values.
C8_SamePathKeepsSession ==
    [][(event'.name = "SettingsChanged" /\ event'.settings.twitch_auth_path = twitch_auth_path)
        => /\ auth_calls' = 0
           /\ reqs' = <<>>
           /\ twitch' = twitch
           /\ username' = event'.settings.username
           /\ hooks_list' = event'.settings.hook_urls_list
           /\ discord_start_msg' = event'.settings.discord_start_msg_x
           /\ discord_stop_msg' = event'.settings.discord_stop_msg
           /\ boxart_height' = event'.settings.boxart_height]_vars

\* C8 witness: the path is unchanged in a state where an attempt could be
\* made (loaded, a credentials file, no session), and the texts are new.
C8_Witness ==
    /\ event.name = "SettingsChanged"
    /\ event.prior_path = event.settings.twitch_auth_path
    /\ loaded
    /\ load_json_file(twitch_auth_path).some
    /\ ~twitch.obj
    /\ auth_calls = 0
    /\ username = "141981764"
    /\ Len(hooks_list) = MaxHooks

\* The three lookups of __on_start each answered 200 with the data asked for.
LookupsFound ==
    \A k \in 1..3 : event.net[k].r.status_code = 200 /\ Len(event.net[k].r.data) > 0

\* The title __on_start formats from the channel the platform describes.
StartTitle ==
    ChannelData[1].broadcaster_name \o " is streaming " \o ChannelData[1].game_name
    \o " on twitch.tv  | " \o ChannelData[1].title

\* The body carries the start message as content, when there is a text, and
\* one embed with the formatted title and the box art's dimensions.
StartNotice(body) ==
    /\ Truthy(discord_start_msg)
         => \E k \in 1..Len(body) : body[k] = <<"content", discord_start_msg>>
    /\ \E k \in 1..Len(body) :
          /\ body[k][1] = "embeds"
          /\ Len(body[k][2]) = 1
          /\ body[k][2][1].title = PyStr(StartTitle)
          /\ body[k][2][1].image.dict.width
                = PyRound(boxart_height * BOXART_RATIO_NUM, BOXART_RATIO_DEN)
          /\ body[k][2][1].image.dict.height = boxart_height

\* C13: StreamStarted handled with an authenticated session and every lookup
\* succeeding makes, when the start notice is asked for, one POST to each
\* configured webhook URL, in their order, each with the start message as
\* content and one embed with the formatted title and the box art sized
\* round(height * 13/18) by height; it makes no POST when the notice is not
\* asked for.
C13_OnePostPerWebhook ==
    (event.name = "StreamStarted" /\ LookupsFound)
        => IF do_discord_start_notice
           THEN /\ Len(posts) = Len(hooks_list)
                /\ \A i \in 1..Len(posts) :
                      posts[i].url = hooks_list[i] /\ StartNotice(posts[i].json)
           ELSE posts = <<>>

----------------------------------------------------------------------------
(* Properties of the Twitch client *)

MetadataOperations == {"get_users_info", "get_user_info", "get_channel_info",
                       "get_videos_info", "get_games_info", "get_game_info"}

\* The requests among rs sent to url.
RequestsTo(rs, url) == Len(SelectSeq(rs, LAMBDA q : q.url = url))

\* C4: a metadata operation called on a session whose authenticated flag is
\* false fails with NotAuthenticated and sends no request to the platform.
C4_UnauthenticatedOperationFails ==
    (event.name \in MetadataOperations /\ ~authenticated(twitch))
        => (raised = "NotAuthenticatedError" /\ reqs = <<>>)

\* C5: constructed with an access token, the client is authenticated, with
\* the client_id of the response, when the validation endpoint answers 200,
\* and unauthenticated on any other response.
C5_TokenValidationDecides ==
    (/\ event.name = "Twitch"
     /\ Truthy(event.auth.access_token)
     /\ event.r.kind = "response")
        => /\ raised = NoExc
           /\ twitch.access_token = event.auth.access_token
           /\ IF event.r.status_code = 200
              THEN authenticated(twitch) /\ twitch.client_id = event.r.client_id
              ELSE ~authenticated(twitch)

\* C6: after revoke_my_access the session is unauthenticated, whatever the
\* revoke call did and whatever client_id and access_token the session held.
C6_RevokedIsUnauthenticated ==
    event.name = "revoke_my_access" => ~authenticated(twitch)

\* C9: a metadata request answered 401 with a challenge that reports an
\* invalid token leads to at most one token request, is not sent again, and
\* is not handed to the operation as a response to read.
C9_UnauthorizedIsNotAResponse ==
    (/\ event.name \in MetadataOperations
     /\ event.r.kind = "response"
     /\ event.r.status_code = 401
     /\ event.r.www \in {TwitchChallenge, ExpectedChallenge})
        => /\ RequestsTo(reqs, AuthToken) <= 1
           /\ Len(reqs) - RequestsTo(reqs, AuthToken) = 1
           /\ event.response = NoResponse

\* Credentials with no access_token and without one of client_id and
\* client_secret.
Incomplete(auth) ==
    /\ auth.access_token = NoneStr
    /\ auth.client_id = NoneStr \/ auth.client_secret = NoneStr

\* C14: constructing the client with credentials that hold neither an
\* access_token nor both of client_id and client_secret raises ValueError
\* and sends no request: with nothing, with client_id alone and with
\* client_secret alone.
C14_IncompleteCredentialsRejected ==
    (event.name = "Twitch" /\ Incomplete(event.auth))
        => (raised = "ValueError" /\ reqs = <<>>)

\* C14 witness: the constructor called with a client_id alone, on top of a
\* session an earlier call had built, and rejected without a request.
C14_Witness ==
    /\ event.name = "Twitch"
    /\ event.auth.access_token = NoneStr
    /\ event.auth.client_id = "cid"
    /\ event.auth.client_secret = NoneStr
    /\ twitch.obj
    /\ raised = "ValueError"
    /\ reqs = <<>>

\* The call was refused for its ids when they were more than 100, with no
\* request sent; with 100 or fewer it was not, and the request went to url
\* with one parameter for each id.
RefusedAboveHundred(ids, url) ==
    IF Len(ids) > 100
    THEN raised = "ValueError" /\ reqs = <<>>
    ELSE /\ raised # "ValueError"
         /\ Len(reqs) >= 1
         /\ reqs[1].url = url
         /\ Len(reqs[1].params) = Len(ids)

\* C15: get_users_info and get_games_info raise the ValueError of too many
\* ids, sending no request, for every list of more than 100 ids, and do not
\* raise it for a list of 100 or fewer: a list of exactly 100 is sent.
C15_MoreThanHundredRefused ==
    /\ event.name = "get_users_info" => RefusedAboveHundred(event.args.ids, Users)
    /\ event.name = "get_games_info" => RefusedAboveHundred(event.args.games, Games)

\* C15 witness: a list of exactly 100 ids sent and answered with data.
C15_Witness ==
    /\ event.name = "get_users_info"
    /\ Len(event.args.ids) = 100
    /\ raised = NoExc
    /\ Len(reqs) = 1
    /\ ret["get_users_info"].some

\* C16: get_videos_info raises the ValueError of an empty query exactly when
\* video_ids, user_id and game_id are all left out; given any of them, a
\* list of video ids alone included, it passes the argument check and sends
\* the videos request.
C16_VideosQueryNeedsOneArgument ==
    event.name = "get_videos_info"
        => IF /\ ~event.args.video_ids.some
              /\ event.args.user_id = NoneStr
              /\ event.args.game_id = NoneStr
           THEN raised = "ValueError" /\ reqs = <<>>
           ELSE /\ raised \notin {"ValueError", "TypeError"}
                /\ Len(reqs) >= 1
                /\ reqs[1].url = Videos

\* A request among rs asked the token endpoint to refresh a token.
RefreshRequested(rs) ==
    \E k \in 1..Len(rs) :
        /\ rs[k].url = AuthToken
        /\ \E p \in 1..Len(rs[k].params) : rs[k].params[p] = <<"grant_type", "refresh_token">>

\* C20: when a metadata request is refused for its token, the session asks
\* the token endpoint to refresh the token and the endpoint answers 200
\* with a token, the session's access_token is the one that answer carries.
C20_RefreshTakesTheNewToken ==
    (/\ event.name \in MetadataOperations
     /\ RefreshRequested(reqs)
     /\ event.ro.kind = "response"
     /\ event.ro.status_code = 200
     /\ event.ro.access_token # NoneStr)
        => twitch.access_token = event.ro.access_token

----------------------------------------------------------------------------
(* Properties of the Discord client *)

\* An embed with every attribute unset, as DiscordEmbed() gives it.
Unset(e) == e = DiscordEmbed(<<>>) \/ \A a \in EmbedAttributes : e[a] = PyNone

\* The length of the text a key of a dict attribute holds.
TextOf(x, key) ==
    CASE x.t = "dict" -> Len(Get(x.dict, key, ""))
      [] x.t = "str" -> Len(x.str)
      [] OTHER -> 0

RECURSIVE FieldsLength(_)
FieldsLength(fs) ==
    IF Len(fs) = 0 THEN 0
    ELSE Len(Head(fs).name) + Len(Head(fs).value) + FieldsLength(Tail(fs))

\* title + description + footer.text + author.name + sum(field.name + field.value)
TotalLength(e) ==
    LenOrEmpty(e.title) + LenOrEmpty(e.description)
    + TextOf(e.footer, "text") + TextOf(e.author, "name")
    + (IF e.fields.t = "list" THEN FieldsLength(e.fields.list) ELSE 0)

\* The embeds of the body of a POST.
EmbedsOf(post) ==
    Bind(SelectSeq(post.json, LAMBDA kv : kv[1] = "embeds"), LAMBDA hits :
        IF Len(hits) = 0 THEN <<>> ELSE hits[1][2])

\* C10: is_embed_valid answers false for an embed with every attribute unset
\* and for one whose total length exceeds 6000, and true for every other;
\* an embed with every attribute unset is in no payload that is delivered.
C10_ValidIffNotEmptyAndShort ==
    /\ event.name = "is_embed_valid"
         => /\ raised = NoExc
            /\ ret = Some(~Unset(embed.v) /\ TotalLength(embed.v) <= MaxLength)
    /\ (event.name = "execute_on_urls" /\ Unset(embed.v))
         => \A i \in 1..Len(posts) : EmbedsOf(posts[i]) = <<>>

\* C17: the wire form of an embed holds a key for an attribute if and only
\* if the attribute is not None, with the attribute's value: an attribute
\* that is None never appears, and one that is set appears, a color of 0,
\* an empty title or description and an empty list of fields included.
C17_JsonHoldsTheSetAttributes ==
    event.name = "json"
        => /\ DOMAIN ret.json = {a \in EmbedAttributes : embed.v[a] # PyNone}
           /\ \A a \in DOMAIN ret.json : ret.json[a] = embed.v[a]

\* C18: an embed, however constructed and whatever set_title,
\* set_description and add_field calls followed, has a title of at most 256
\* characters, a description of at most 2048 and at most 25 fields; add_field
\* is refused only when the embed holds 25 fields, and accepted otherwise.
C18_EmbedWithinLimits ==
    embed.some
        => /\ LenOrEmpty(embed.v.title) <= 256
           /\ LenOrEmpty(embed.v.description) <= 2048
           /\ embed.v.fields.t = "list" => Len(embed.v.fields.list) <= 25
           /\ (event.name = "add_field" /\ embed.v.fields.t = "list")
                 => IF raised = NoExc
                    THEN Len(embed.v.fields.list) \in 1..25
                    ELSE raised = "ValueError" /\ Len(embed.v.fields.list) = 25

----------------------------------------------------------------------------
(* Properties of DiscordWebhook objects *)

\* The embed whose validity check answers, and answers no.
Invalid(e) == is_embed_valid(e).exc = NoExc /\ ~is_embed_valid(e).ret

\* The object the last call was made on.
Called == hook_at(webhooks, event.hook)

\* C11: execute on a webhook whose content is None or empty and none of
\* whose embeds is valid raises the error of an empty message and makes no
\* POST.
C11_EmptyMessageBeforeAnyPost ==
    (/\ event.name = "execute"
     /\ ~Truthy(Called.content)
     /\ \A k \in 1..Len(Called.embeds) : Invalid(Called.embeds[k]))
        => (raised = "ValueError" /\ posts = <<>>)

\* An embed that is not empty and within the length limit.
ValidEmbed(e) == ~Unset(e) /\ TotalLength(e) <= MaxLength

\* A message with content, or with an embed that is valid.
ValidMessage(h) ==
    Truthy(h.content) \/ \E k \in 1..Len(h.embeds) : ValidEmbed(h.embeds[k])

\* C12: execute on a webhook with a valid message, every target answering
\* with an HTTP status, makes one POST to each target, in the order of the
\* targets and with the same body, whatever the statuses are.
C12_EveryTargetPostedOnce ==
    (/\ event.name = "execute"
     /\ ValidMessage(Called)
     /\ \A i \in 1..Len(event.answers) : event.answers[i] # 0)
        => /\ raised = NoExc
           /\ Len(posts) = Len(Called.urls)
           /\ \A i \in 1..Len(posts) :
                 /\ posts[i].url = Called.urls[i][1]
                 /\ posts[i].status_code = event.answers[i]
                 /\ posts[i].json = posts[1].json

\* The object was constructed without an embeds argument.
WithoutEmbedsArgument(w, i) == w.hooks[i].embeds = DefaultEmbeds

\* C19: add_embed on a webhook constructed without an embeds argument leaves
\* the embeds of every other webhook constructed that way as they were.
C19_AddEmbedLeavesOtherWebhooks ==
    [][(event'.name = "add_embed" /\ WithoutEmbedsArgument(webhooks, event'.hook))
        => \A j \in 1..Len(webhooks.hooks) :
              (j # event'.hook /\ WithoutEmbedsArgument(webhooks, j))
                  => embeds_of(webhooks', j) = embeds_of(webhooks, j)]_vars

====
